---- MODULE Spec2Model ----
(***************************************************************************)
(* LLDP agent (abhishekshinde2104/LLDPA): the TLV codecs, the Lldpdu       *)
(* container and the agent's run/announce loop, modelled from the Rust     *)
(* sources.  Bytes are naturals 0..255, byte strings and Strings (UTF-8)   *)
(* are sequences of bytes, a panic is an outcome ok = FALSE.               *)
(***************************************************************************)
EXTENDS Integers, Sequences, FiniteSets, TLC

(***************************************************************************)
(* Bounds of the model                                                     *)
(***************************************************************************)
\* appends (accepted) to one Lldpdu
MaxTlvs == 6
\* appends (accepted) to an Lldpdu that is also read
MaxQueried == 5
\* wire records put into one receive buffer
MaxRecords == 4
\* frames one run() receives
MaxFrames == 2
\* the clock stops advancing here
MaxTime == 4
\* announce() calls recorded
MaxSent == 3

(***************************************************************************)
(* Program constants                                                      *)
(***************************************************************************)
\* lldpdu.rs:138  maximum cumulative size of an LLDPDU
MaxLldpduSize == 1500
\* agent.rs:187  TTL announced
AnnounceTtl == 60
\* pnet EtherTypes::Lldp = 0x88CC, as the two bytes of the frame
EtherTypeLldpHi == 136
EtherTypeLldpLo == 204

(***************************************************************************)
(* tlv.rs: TlvType                                                         *)
(***************************************************************************)
EndOfLLDPDU == 0
ChassisId == 1
PortId == 2
Ttl == 3
PortDescription == 4
SystemName == 5
SystemDescription == 6
SystemCapabilities == 7
ManagementAddress == 8
OrganizationallySpecific == 127

TlvTypeCodes ==
    {EndOfLLDPDU, ChassisId, PortId, Ttl, PortDescription, SystemName,
     SystemDescription, SystemCapabilities, ManagementAddress,
     OrganizationallySpecific}

\* TryFrom<u8> for TlvType: Ok exactly for the registered codes
TlvType_try_from(v) == [ok |-> v \in TlvTypeCodes, value |-> v]

(***************************************************************************)
(* Helpers on bytes and sequences                                          *)
(***************************************************************************)
\* a sequence of n copies of b
Rep(b, n) == [i \in 1..n |-> b]

\* Rust slice s[from..] with a 0-based index; callers check from <= len
Tail0(s, from) == SubSeq(s, from + 1, Len(s))

\* Rust slice s[from..to] with 0-based bounds
Slice0(s, from, to) == SubSeq(s, from + 1, to)

\* x as u8
AsU8(x) == x % 256

(***************************************************************************)
(* TLV values.  One record shape for the ten kinds:                        *)
(*   tlv_type  the TlvType code                                            *)
(*   subtype   ChassisId/PortId subtype, IFNumberingSubtype, org. subtype  *)
(*   vk        the value variant: "Mac", "V4", "V6", "Other" or "None"     *)
(*   value     the bytes of the value (MAC, IP octets, String, org. info)  *)
(*   num       TtlTLV.value, SystemCapabilitiesTLV.value, interface_number *)
(*   oui, oid  OrganizationallySpecificTLV.oui, ManagementAddressTLV.oid   *)
(***************************************************************************)
MkTlv(tt, st, vk, val, n, oui, oid) ==
    [tlv_type |-> tt, subtype |-> st, vk |-> vk, value |-> val, num |-> n,
     oui |-> oui, oid |-> oid]

ChassisIdTLV_new(subtype, vk, id) == MkTlv(ChassisId, subtype, vk, id, 0, <<>>, <<>>)

PortIdTLV_new(subtype, vk, id) == MkTlv(PortId, subtype, vk, id, 0, <<>>, <<>>)

TtlTLV_new(ttl) == MkTlv(Ttl, 0, "None", <<>>, ttl, <<>>, <<>>)

EndOfLLDPDUTLV_new == MkTlv(EndOfLLDPDU, 0, "None", <<>>, 0, <<>>, <<>>)

PortDescriptionTLV_new(value) == MkTlv(PortDescription, 0, "Other", value, 0, <<>>, <<>>)

SystemNameTLV_new(name) == MkTlv(SystemName, 0, "Other", name, 0, <<>>, <<>>)

SystemDescriptionTLV_new(description) ==
    MkTlv(SystemDescription, 0, "Other", description, 0, <<>>, <<>>)

RECURSIVE BitOr(_, _)
BitOr(x, y) ==
    IF x = 0 THEN y ELSE IF y = 0 THEN x
    ELSE (IF x % 2 = 1 \/ y % 2 = 1 THEN 1 ELSE 0) + 2 * BitOr(x \div 2, y \div 2)

RECURSIVE BitAnd(_, _)
BitAnd(x, y) ==
    IF x = 0 \/ y = 0 THEN 0
    ELSE (IF x % 2 = 1 /\ y % 2 = 1 THEN 1 ELSE 0) + 2 * BitAnd(x \div 2, y \div 2)

\* the struct literal of systemcapabilities_tlv.rs:168 (value: u32)
SystemCapabilitiesTLV_of(value) == MkTlv(SystemCapabilities, 0, "None", <<>>, value, <<>>, <<>>)

\* systemcapabilities_tlv.rs:121-127  `supported << 16` shifts a u16 by its
\* width: with overflow checks (debug profile) it panics, without them
\* (release profile) the shift amount is masked to 0, so that value is
\* supported | enabled.  [ok, tlv]
SystemCapabilitiesTLV_new(supported, enabled, overflow_checks) ==
    IF overflow_checks
    THEN [ok |-> FALSE, tlv |-> SystemCapabilitiesTLV_of(0)]
    ELSE [ok |-> TRUE, tlv |-> SystemCapabilitiesTLV_of(BitOr(supported, enabled))]

ManagementAddressTLV_new(vk, address, interface_number, ifsubtype, oid) ==
    MkTlv(ManagementAddress, ifsubtype, vk, address, interface_number, <<>>, oid)

OrganizationallySpecificTLV_new(oui, subtype, value) ==
    MkTlv(OrganizationallySpecific, subtype, "None", value, 0, oui, <<>>)

(***************************************************************************)
(* len(): the length of the TLV value, per kind                            *)
(***************************************************************************)
ChassisIdTLV_len(t) ==
    1 + CASE t.vk = "Mac" -> 6
          [] t.vk = "Other" -> Len(t.value)
          [] t.vk = "V4" -> 4 + 1
          [] t.vk = "V6" -> 16 + 1

PortIdTLV_len(t) ==
    1 + CASE t.vk = "Mac" -> 6
          [] t.vk = "V4" -> 5
          [] t.vk = "V6" -> 17
          [] t.vk = "Other" -> Len(t.value)

TtlTLV_len(t) == 2

EndOfLLDPDUTLV_len(t) == 0

StringTLV_len(t) == Len(t.value)

SystemCapabilitiesTLV_len(t) == 4

ManagementAddressTLV_len(t) ==
    8 + (IF t.vk = "V4" THEN 4 ELSE 16) + Len(t.oid)

OrganizationallySpecificTLV_len(t) == 4 + Len(t.value)

(***************************************************************************)
(* bytes(): the byte representation, per kind                              *)
(***************************************************************************)
\* the family prefix byte written before an IP address (ChassisId, PortId)
IpPrefix(t) == IF t.vk = "V4" THEN <<1>> ELSE IF t.vk = "V6" THEN <<2>> ELSE <<>>

\* chassisid_tlv.rs:247  `length_field & (1 << 9) == 1` is never true
ChassisIdTLV_bit(len) == IF ((len \div 512) % 2) * 512 = 1 THEN 1 ELSE 0

ChassisIdTLV_bytes(t) ==
    LET type_field == ChassisId * 2 + ChassisIdTLV_bit(ChassisIdTLV_len(t))
        length_field == AsU8(ChassisIdTLV_len(t))
    IN  <<type_field, length_field, t.subtype>> \o IpPrefix(t) \o t.value

\* the header idiom of portid, ttl, systemcapabilities, managementaddress and
\* organizationallyspecific: bit 0 of byte 0 is set when len & 0b100000000 != 0
HeaderBit8(len) == IF (len \div 256) % 2 # 0 THEN 1 ELSE 0

PortIdTLV_bytes(t) ==
    LET type_rep == PortId * 2 + HeaderBit8(PortIdTLV_len(t))
        len_rep == PortIdTLV_len(t) % 256
    IN  <<type_rep, len_rep, t.subtype>> \o IpPrefix(t) \o t.value

\* ttl_tlv.rs:95-98: byte1 is the low byte and is written first
TtlTLV_bytes(t) ==
    LET type_rep == Ttl * 2 + HeaderBit8(TtlTLV_len(t))
        len_rep == TtlTLV_len(t) % 256
        byte1 == t.num % 256
        byte2 == (t.num \div 256) % 256
    IN  <<type_rep, len_rep, byte1, byte2>>

EndOfLLDPDUTLV_bytes(t) == <<0, 0>>

\* portdescription/systemname/systemdescription: `bit_9_set == 1` with
\* bit_9_set = len & 0b100000000 (0 or 256) is never true
StringTLV_bit(len) == IF ((len \div 256) % 2) * 256 = 1 THEN 1 ELSE 0

StringTLV_bytes(t) ==
    LET type_rep == t.tlv_type * 2 + StringTLV_bit(StringTLV_len(t))
        len_rep == StringTLV_len(t) % 256
    IN  <<type_rep, len_rep>> \o t.value

SystemCapabilitiesTLV_bytes(t) ==
    LET type_rep == SystemCapabilities * 2 + HeaderBit8(SystemCapabilitiesTLV_len(t))
        len_rep == SystemCapabilitiesTLV_len(t) % 256
        byte4 == t.num % 256
        byte3 == (t.num \div 256) % 256
        byte2 == (t.num \div 65536) % 256
        byte1 == (t.num \div 16777216) % 256
    IN  <<type_rep, len_rep, byte1, byte2, byte3, byte4>>

\* managementaddress_tlv.rs:259-292: the subtype byte is the literal 1, the
\* address is written as the single byte ip_addr (4 or 16), the OID length
\* byte is the literal 1
ManagementAddressTLV_bytes(t) ==
    LET type_rep == ManagementAddress * 2 + HeaderBit8(ManagementAddressTLV_len(t))
        len_rep == ManagementAddressTLV_len(t) % 256
        ip_addr == IF t.vk = "V4" THEN 4 ELSE 16
        mng_add_str_len_rep == ip_addr + 1
        mng_add_sub_rep == 1
        byte4 == t.num % 256
        byte3 == (t.num \div 256) % 256
        byte2 == (t.num \div 65536) % 256
        byte1 == (t.num \div 16777216) % 256
        oid_str_len_rep == 1
    IN  <<type_rep, len_rep, mng_add_str_len_rep, mng_add_sub_rep, ip_addr,
          t.subtype, byte1, byte2, byte3, byte4, oid_str_len_rep>> \o t.oid

OrganizationallySpecificTLV_bytes(t) ==
    LET type_rep == OrganizationallySpecific * 2
                        + HeaderBit8(OrganizationallySpecificTLV_len(t))
        len_rep == OrganizationallySpecificTLV_len(t) % 256
    IN  <<type_rep, len_rep>> \o t.oui \o <<t.subtype>> \o t.value

(***************************************************************************)
(* new_from_bytes(): the decoders, per kind.  The result is [ok, tlv];     *)
(* ok = FALSE is a panic (an explicit panic!, a failed assert_eq!, an      *)
(* unwrap of Err, or an index out of range).  At(bytes, i) is bytes[i].    *)
(***************************************************************************)
At(bytes, i) == bytes[i + 1]

Panicked == [ok |-> FALSE, tlv |-> EndOfLLDPDUTLV_new]

Decoded(tlv) == [ok |-> TRUE, tlv |-> tlv]

\* String::from_utf8 succeeds: the well-formed UTF-8 byte sequences
\* (Unicode 15, table 3-7)
RECURSIVE IsUtf8(_)
IsUtf8(b) ==
    LET n == Len(b)
        Cont(i) == n >= i /\ b[i] >= 128 /\ b[i] <= 191
        In(i, lo, hi) == n >= i /\ b[i] >= lo /\ b[i] <= hi
    IN  IF \A i \in 1..n : b[i] <= 127 THEN TRUE
        ELSE IF b[1] <= 127
        THEN IsUtf8(Tail0(b, (CHOOSE k \in 1..n :
                                 b[k] > 127 /\ \A j \in 1..(k - 1) : b[j] <= 127) - 1))
        ELSE IF b[1] >= 194 /\ b[1] <= 223 THEN Cont(2) /\ IsUtf8(Tail0(b, 2))
        ELSE IF b[1] = 224 THEN In(2, 160, 191) /\ Cont(3) /\ IsUtf8(Tail0(b, 3))
        ELSE IF b[1] = 237 THEN In(2, 128, 159) /\ Cont(3) /\ IsUtf8(Tail0(b, 3))
        ELSE IF b[1] >= 225 /\ b[1] <= 239 THEN Cont(2) /\ Cont(3) /\ IsUtf8(Tail0(b, 3))
        ELSE IF b[1] = 240 THEN In(2, 144, 191) /\ Cont(3) /\ Cont(4) /\ IsUtf8(Tail0(b, 4))
        ELSE IF b[1] >= 241 /\ b[1] <= 243 THEN Cont(2) /\ Cont(3) /\ Cont(4) /\ IsUtf8(Tail0(b, 4))
        ELSE IF b[1] = 244 THEN In(2, 128, 143) /\ Cont(3) /\ Cont(4) /\ IsUtf8(Tail0(b, 4))
        ELSE FALSE

\* type_value = (bytes[0] & 0b11111110) >> 1
TypeBits(bytes) == At(bytes, 0) \div 2

\* the header length as every decoder but ChassisId's reads it:
\* bytes[1], plus 256 when bit 0 of bytes[0] is set
LengthValue(bytes) == At(bytes, 1) + (IF At(bytes, 0) % 2 # 0 THEN 256 ELSE 0)

\* chassisid_tlv.rs:187-190 and lldpdu.rs:74-77: bytes[1], plus 1 << 9 when
\* bit 0 of bytes[0] is set
LengthShift9(b0, b1) == b1 + (IF b0 % 2 = 1 THEN 512 ELSE 0)

\* chassisid_tlv.rs:208, 213 and portid_tlv.rs:192, 199: the assert_eq! on the
\* number of bytes after the family prefix; without it only the slice
\* bytes[4..4 + n] would panic, on a buffer that is too short
AddressSizeAtLeast(bytes, n) == Len(bytes) - 4 >= n
AddressSize(bytes, n) == Len(bytes) - 4 = n

ChassisIdTLV_new_from_bytes(bytes) ==
    IF Len(bytes) < 2 THEN Panicked
    ELSE IF TypeBits(bytes) # ChassisId THEN Panicked
    ELSE IF LengthShift9(At(bytes, 0), At(bytes, 1)) # Len(bytes) - 2 THEN Panicked
    ELSE IF Len(bytes) < 3 THEN Panicked
    ELSE LET subtype == At(bytes, 2) IN
         IF subtype \notin 1..7 THEN Panicked
         ELSE IF subtype = 4
              THEN IF Len(bytes) - 3 # 6 THEN Panicked
                   ELSE Decoded(ChassisIdTLV_new(subtype, "Mac", Tail0(bytes, 3)))
         ELSE IF subtype = 5
              THEN IF Len(bytes) < 4 THEN Panicked
                   ELSE IF At(bytes, 3) = 1
                        THEN IF ~AddressSize(bytes, 4) THEN Panicked
                             ELSE Decoded(ChassisIdTLV_new(subtype, "V4", Slice0(bytes, 4, 8)))
                   ELSE IF At(bytes, 3) = 2
                        THEN IF ~AddressSize(bytes, 16) THEN Panicked
                             ELSE Decoded(ChassisIdTLV_new(subtype, "V6", Slice0(bytes, 4, 20)))
                   ELSE Panicked
         ELSE IF IsUtf8(Tail0(bytes, 3))
              THEN Decoded(ChassisIdTLV_new(subtype, "Other", Tail0(bytes, 3)))
              ELSE Panicked

PortIdTLV_new_from_bytes(bytes) ==
    IF Len(bytes) < 3 THEN Panicked
    ELSE LET subtype_value == At(bytes, 2) IN
         IF subtype_value \notin 1..7 THEN Panicked
         ELSE IF subtype_value = 3
              THEN IF Len(bytes) - 3 # 6 THEN Panicked
                   ELSE Decoded(PortIdTLV_new(subtype_value, "Mac", Tail0(bytes, 3)))
         ELSE IF subtype_value = 4
              THEN IF Len(bytes) < 4 THEN Panicked
                   ELSE IF At(bytes, 3) = 1
                        THEN IF ~AddressSize(bytes, 4) THEN Panicked
                             ELSE Decoded(PortIdTLV_new(subtype_value, "V4", Slice0(bytes, 4, 8)))
                   ELSE IF At(bytes, 3) = 2
                        THEN IF ~AddressSize(bytes, 16) THEN Panicked
                             ELSE Decoded(PortIdTLV_new(subtype_value, "V6", Tail0(bytes, 4)))
                   ELSE Panicked
         ELSE IF IsUtf8(Tail0(bytes, 3))
              THEN Decoded(PortIdTLV_new(subtype_value, "Other", Tail0(bytes, 3)))
              ELSE Panicked

\* ttl_tlv.rs:51-72: neither the type nor the length is checked
TtlTLV_new_from_bytes(bytes) ==
    IF Len(bytes) < 4 THEN Panicked
    ELSE Decoded(TtlTLV_new(At(bytes, 2) * 256 + At(bytes, 3)))

EndOfLLDPDUTLV_new_from_bytes(bytes) ==
    IF Len(bytes) < 2 THEN Panicked
    ELSE IF TypeBits(bytes) # 0 \/ LengthValue(bytes) # 0 THEN Panicked
    ELSE Decoded(EndOfLLDPDUTLV_new)

\* portdescription/systemname/systemdescription: a header length of 0 panics
StringTLV_new_from_bytes(type, bytes) ==
    IF Len(bytes) < 2 THEN Panicked
    ELSE IF ~IsUtf8(Tail0(bytes, 2)) THEN Panicked
    ELSE IF TypeBits(bytes) # type \/ LengthValue(bytes) = 0 THEN Panicked
    ELSE Decoded(MkTlv(type, 0, "Other", Tail0(bytes, 2), 0, <<>>, <<>>))

PortDescriptionTLV_new_from_bytes(bytes) == StringTLV_new_from_bytes(PortDescription, bytes)

SystemNameTLV_new_from_bytes(bytes) == StringTLV_new_from_bytes(SystemName, bytes)

SystemDescriptionTLV_new_from_bytes(bytes) ==
    StringTLV_new_from_bytes(SystemDescription, bytes)

\* x | y on bytes
\* systemcapabilities_tlv.rs:147-168.  `bytes[2] << 8` shifts a u8 by its
\* width: with overflow checks (debug profile) it panics, without them
\* (release profile) the shift amount is masked to 0.
SystemCapabilitiesTLV_new_from_bytes(bytes, overflow_checks) ==
    IF Len(bytes) < 3 THEN Panicked
    ELSE IF overflow_checks THEN Panicked
    ELSE IF Len(bytes) < 6 THEN Panicked
    ELSE LET b2 == At(bytes, 2)
             b3 == At(bytes, 3)
             b4 == At(bytes, 4)
             b5 == At(bytes, 5)
             sys_cap == BitOr(b2, b3)
             enabled_cap == BitOr(b4, b5)
             total_value == sys_cap + enabled_cap
         IN  IF BitAnd(sys_cap, enabled_cap) # enabled_cap THEN Panicked
             ELSE IF TypeBits(bytes) # 7 \/ LengthValue(bytes) = 0 THEN Panicked
             ELSE Decoded(SystemCapabilitiesTLV_of(total_value))

\* managementaddress_tlv.rs:145-215.  The interface numbering subtype is read
\* at index 2 + mng_add_str_len, and the OID is the rest of the buffer.
ManagementAddressTLV_new_from_bytes(bytes) ==
    IF Len(bytes) < 4 THEN Panicked
    ELSE LET mng_add_str_len == At(bytes, 2)
             mng_add_subtype == At(bytes, 3)
             alen == IF mng_add_subtype = 1 THEN 4 ELSE 16
             inf_num_subtype_index == 2 + mng_add_str_len
             inf_num_oct_index == inf_num_subtype_index + 1
             obj_str_len_index == inf_num_oct_index + 4
             obj_iden_index == obj_str_len_index + 1
         IN  IF mng_add_subtype \notin {1, 2} THEN Panicked
             ELSE IF mng_add_str_len # alen + 1 THEN Panicked
             ELSE IF Len(bytes) < 4 + alen THEN Panicked
             ELSE IF Len(bytes) <= inf_num_subtype_index THEN Panicked
             ELSE IF At(bytes, inf_num_subtype_index) \notin 1..3 THEN Panicked
             ELSE IF Len(bytes) < inf_num_oct_index + 4 THEN Panicked
             ELSE IF Len(bytes) <= obj_str_len_index THEN Panicked
             ELSE Decoded(ManagementAddressTLV_new(
                      IF mng_add_subtype = 1 THEN "V4" ELSE "V6",
                      Slice0(bytes, 4, 4 + alen),
                      At(bytes, inf_num_oct_index) * 16777216
                        + At(bytes, inf_num_oct_index + 1) * 65536
                        + At(bytes, inf_num_oct_index + 2) * 256
                        + At(bytes, inf_num_oct_index + 3),
                      At(bytes, inf_num_subtype_index),
                      Tail0(bytes, obj_iden_index)))

OrganizationallySpecificTLV_new_from_bytes(bytes) ==
    IF Len(bytes) < 6 THEN Panicked
    ELSE Decoded(OrganizationallySpecificTLV_new(
             Slice0(bytes, 2, 5), At(bytes, 5), Tail0(bytes, 6)))

(***************************************************************************)
(* tlv.rs: the Tlv variant's dispatch                                      *)
(***************************************************************************)
Tlv_get_type(t) == t.tlv_type

Tlv_bytes(t) ==
    CASE t.tlv_type = ChassisId -> ChassisIdTLV_bytes(t)
      [] t.tlv_type = EndOfLLDPDU -> EndOfLLDPDUTLV_bytes(t)
      [] t.tlv_type = ManagementAddress -> ManagementAddressTLV_bytes(t)
      [] t.tlv_type = OrganizationallySpecific -> OrganizationallySpecificTLV_bytes(t)
      [] t.tlv_type = PortId -> PortIdTLV_bytes(t)
      [] t.tlv_type = Ttl -> TtlTLV_bytes(t)
      [] t.tlv_type = SystemCapabilities -> SystemCapabilitiesTLV_bytes(t)
      [] OTHER -> StringTLV_bytes(t)

\* the match on the TlvType of Tlv::from_bytes and Lldpdu::from_bytes
DecodeByType(type, bytes, overflow_checks) ==
    CASE type = ChassisId -> ChassisIdTLV_new_from_bytes(bytes)
      [] type = PortId -> PortIdTLV_new_from_bytes(bytes)
      [] type = Ttl -> TtlTLV_new_from_bytes(bytes)
      [] type = EndOfLLDPDU -> EndOfLLDPDUTLV_new_from_bytes(bytes)
      [] type = PortDescription -> PortDescriptionTLV_new_from_bytes(bytes)
      [] type = SystemName -> SystemNameTLV_new_from_bytes(bytes)
      [] type = SystemDescription -> SystemDescriptionTLV_new_from_bytes(bytes)
      [] type = SystemCapabilities ->
            SystemCapabilitiesTLV_new_from_bytes(bytes, overflow_checks)
      [] type = ManagementAddress -> ManagementAddressTLV_new_from_bytes(bytes)
      [] type = OrganizationallySpecific ->
            OrganizationallySpecificTLV_new_from_bytes(bytes)

\* Tlv::from_bytes
Tlv_from_bytes(bytes, overflow_checks) ==
    IF Len(bytes) < 1 THEN Panicked
    ELSE IF ~TlvType_try_from(TypeBits(bytes)).ok THEN Panicked
    ELSE DecodeByType(TypeBits(bytes), bytes, overflow_checks)

(***************************************************************************)
(* lldpdu.rs: the Lldpdu container, a record [has_end, tlvs, size]         *)
(***************************************************************************)
EmptyLldpdu == [has_end |-> FALSE, tlvs |-> <<>>, size |-> 0]

Lldpdu_len(self) == Len(self.tlvs)

Lldpdu_complete(self) == self.has_end

RECURSIVE ConcatBytes(_)
ConcatBytes(ts) ==
    IF ts = <<>> THEN <<>> ELSE Tlv_bytes(Head(ts)) \o ConcatBytes(Tail(ts))

\* lldpdu.rs:201-210  every TLV's record, in order
Lldpdu_bytesButEnd(self) ==
    ConcatBytes(SelectSeq(self.tlvs, LAMBDA t : t.tlv_type # EndOfLLDPDU))
Lldpdu_bytes(self) == ConcatBytes(self.tlvs)

MandatoryTypes == {ChassisId, PortId, Ttl}

\* lldpdu.rs:138  the size check, made first
SizeOverflowOffByOne(self, tlv_size) == self.size + tlv_size >= MaxLldpduSize
SizeOverflow(self, tlv_size) == self.size + tlv_size > MaxLldpduSize

\* lldpdu.rs:142
AfterEndNever(self) == FALSE
AfterEnd(self) == self.has_end

\* lldpdu.rs:148, 152, 156  the three position checks
FirstNotChassis(self, type_field) == Lldpdu_len(self) = 0 /\ type_field # ChassisId

SecondNotPort(self, type_field) == Lldpdu_len(self) = 1 /\ type_field # PortId

ThirdNotTtlNever(self, type_field) == FALSE
ThirdNotTtlOffByOne(self, type_field) == Lldpdu_len(self) = 3 /\ type_field # Ttl
ThirdNotTtl(self, type_field) == Lldpdu_len(self) = 2 /\ type_field # Ttl

\* lldpdu.rs:160-164
DuplicateMandatoryOnlyChassis(self, type_field) ==
    Lldpdu_len(self) >= 3 /\ type_field = ChassisId
DuplicateAnyKind(self, type_field) ==
    /\ Lldpdu_len(self) >= 3
    /\ \/ type_field \in MandatoryTypes
       \/ \E i \in 1..Len(self.tlvs) : self.tlvs[i].tlv_type = type_field
DuplicateMandatory(self, type_field) ==
    Lldpdu_len(self) >= 3 /\ type_field \in MandatoryTypes

\* lldpdu.rs:168-171
EndTooEarly(self, type_field) == type_field = EndOfLLDPDU /\ Lldpdu_len(self) < 3

\* lldpdu.rs:168-173  the terminator flag after an accepted append
NewHasEndNever(self, type_field) == self.has_end
NewHasEnd(self, type_field) == IF type_field = EndOfLLDPDU THEN TRUE ELSE self.has_end

\* the panic append() raises for a TLV of this type and encoded size, in the
\* order of the checks, or "none"
AppendError(self, type_field, tlv_size) ==
    CASE SizeOverflow(self, tlv_size) -> "size"
      [] AfterEnd(self) -> "after_end"
      [] FirstNotChassis(self, type_field) -> "first"
      [] SecondNotPort(self, type_field) -> "second"
      [] ThirdNotTtl(self, type_field) -> "third"
      [] DuplicateMandatory(self, type_field) -> "duplicate"
      [] EndTooEarly(self, type_field) -> "end_early"
      [] OTHER -> "none"

\* self when append() panics: every panic! of lldpdu.rs:137-171 comes before
\* the first assignment to a field (has_end at 172, tlvs at 175, size at 176)
AtPanicFlagFirst(self, type_field) ==
    [self EXCEPT !.has_end = (type_field = EndOfLLDPDU) \/ @]
AtPanic(self, type_field) == self

\* lldpdu.rs:176  self.size += tlv_size, tlv_size being tlv.bytes().len()
NewSizeOfValue(self, tlv_size) == self.size + tlv_size - 2
NewSize(self, tlv_size) == self.size + tlv_size

\* Lldpdu::append: [ok, err, lldpdu]; a panic leaves self as it was
Lldpdu_append(self, tlv) ==
    LET tlv_size == Len(Tlv_bytes(tlv))
        type_field == Tlv_get_type(tlv)
        err == AppendError(self, type_field, tlv_size)
    IN  IF err # "none"
        THEN [ok |-> FALSE, err |-> err, lldpdu |-> AtPanic(self, type_field)]
        ELSE [ok |-> TRUE, err |-> "none",
              lldpdu |-> [has_end |-> NewHasEnd(self, type_field),
                          tlvs |-> Append(self.tlvs, tlv),
                          size |-> NewSize(self, tlv_size)]]

\* Lldpdu::new: the appends of init_tlvs in order, the first panic aborting
RECURSIVE AppendAll(_, _)
AppendAll(self, ts) ==
    IF ts = <<>> THEN [ok |-> TRUE, err |-> "none", lldpdu |-> self]
    ELSE LET r == Lldpdu_append(self, Head(ts))
         IN  IF r.ok THEN AppendAll(r.lldpdu, Tail(ts)) ELSE r

Lldpdu_new(init_tlvs) == AppendAll(EmptyLldpdu, init_tlvs)

\* Lldpdu::from_bytes: the loop of lldpdu.rs:65-107 from offset index on.
\* [ok, lldpdu]; ok = FALSE is a panic (unknown type, index or slice out of
\* range, a decoder's panic, append's panic).
RECURSIVE FromBytesLoop(_, _, _, _)
FromBytesLoop(data, index, self, overflow_checks) ==
    IF ~(index < Len(data)) THEN [ok |-> TRUE, lldpdu |-> self]
    ELSE LET type_field == TlvType_try_from(At(data, index) \div 2) IN
         IF ~type_field.ok THEN [ok |-> FALSE, lldpdu |-> EmptyLldpdu]
         ELSE IF ~(index + 1 < Len(data)) THEN [ok |-> FALSE, lldpdu |-> EmptyLldpdu]
         ELSE LET length == LengthShift9(At(data, index), At(data, index + 1)) IN
              IF index + 2 + length > Len(data) THEN [ok |-> FALSE, lldpdu |-> EmptyLldpdu]
              ELSE LET bytes == Slice0(data, index, index + 2 + length)
                       tlv == DecodeByType(type_field.value, bytes, overflow_checks)
                   IN  IF ~tlv.ok THEN [ok |-> FALSE, lldpdu |-> EmptyLldpdu]
                       ELSE LET r == Lldpdu_append(self, tlv.tlv) IN
                            IF ~r.ok THEN [ok |-> FALSE, lldpdu |-> EmptyLldpdu]
                            ELSE FromBytesLoop(data, index + 2 + length, r.lldpdu,
                                               overflow_checks)

Lldpdu_from_bytes(data, overflow_checks) ==
    FromBytesLoop(data, 0, EmptyLldpdu, overflow_checks)

(***************************************************************************)
(* Display: the printable representations.  A text is the sequence of its  *)
(* UTF-8 bytes; the result is [ok, text], ok = FALSE being the panic of    *)
(* todo!().                                                                *)
(***************************************************************************)
RECURSIVE Digits(_, _, _)
\* n in base `base`, without padding; letters start at the byte `alpha`
Digits(n, base, alpha) ==
    LET d == n % base
        c == IF d < 10 THEN 48 + d ELSE alpha + d - 10
    IN  IF n < base THEN <<c>> ELSE Digits(n \div base, base, alpha) \o <<c>>

\* format!("{}", n)
Dec(n) == Digits(n, 10, 65)

\* format!("{:X}", n) and format!("{:x}", n)
UpperHex(n) == Digits(n, 16, 65)
LowerHex(n) == Digits(n, 16, 97)

\* the texts of seq joined by sep
RECURSIVE Join(_, _)
Join(texts, sep) ==
    IF texts = <<>> THEN <<>>
    ELSE IF Len(texts) = 1 THEN texts[1]
    ELSE texts[1] \o sep \o Join(Tail(texts), sep)

\* Ipv4Addr's Display: dotted decimal
Ipv4Text(o) == Join([i \in 1..Len(o) |-> Dec(o[i])], <<46>>)

\* Ipv6Addr's Display: ::ffff:a.b.c.d for an IPv4-mapped address, otherwise
\* lower-case hex groups with the first longest run of two or more zero
\* groups written as "::"
Ipv6Text(o) ==
    LET g == [i \in 1..8 |-> o[2 * i - 1] * 256 + o[2 * i]]
        Run(i) == CHOOSE n \in 0..8 :
                     /\ \A k \in i..(i + n - 1) : k <= 8 /\ g[k] = 0
                     /\ (i + n > 8 \/ g[i + n] # 0)
        best == CHOOSE i \in 1..8 :
                     /\ \A j \in 1..8 : Run(j) <= Run(i)
                     /\ \A j \in 1..(i - 1) : Run(j) < Run(i)
        Groups(from, to) == Join([i \in 1..(to - from + 1) |-> LowerHex(g[from + i - 1])], <<58>>)
    IN  IF (\A i \in 1..5 : g[i] = 0) /\ g[6] = 65535
        THEN <<58, 58, 102, 102, 102, 102, 58>> \o Ipv4Text(SubSeq(o, 13, 16))
        ELSE IF Run(best) >= 2
        THEN Groups(1, best - 1) \o <<58, 58>> \o Groups(best + Run(best), 8)
        ELSE Groups(1, 8)

Shown(text) == [ok |-> TRUE, text |-> text]

Unimplemented == [ok |-> FALSE, text |-> <<>>]

\* chassisid_tlv.rs:133-158  ChassisIdTLV({subtype}, "{value}")
ChassisIdTLV_fmt(t) ==
    LET value == CASE t.vk = "Mac" ->
                        Join([i \in 1..Len(t.value) |-> UpperHex(t.value[i])], <<58>>)
                   [] t.vk = "Other" -> t.value
                   [] t.vk = "V4" -> Ipv4Text(t.value)
                   [] t.vk = "V6" -> Ipv6Text(t.value)
    IN  Shown(<<67, 104, 97, 115, 115, 105, 115, 73, 100, 84, 76, 86, 40>>
              \o Dec(t.subtype) \o <<44, 32, 34>> \o value \o <<34, 41>>)

\* portid_tlv.rs:126-133  todo!()
PortIdTLV_fmt(t) == Unimplemented

\* ttl_tlv.rs:30-36  TtlTLV({value})
TtlTLV_fmt(t) == Shown(<<84, 116, 108, 84, 76, 86, 40>> \o Dec(t.num) \o <<41>>)

\* eolldpdu_tlv.rs:25-31  EndOfLLDPDUTLV
EndOfLLDPDUTLV_fmt(t) ==
    Shown(<<69, 110, 100, 79, 102, 76, 76, 68, 80, 68, 85, 84, 76, 86>>)

\* PortDescriptionTLV("{value}")
PortDescriptionTLV_fmt(t) ==
    Shown(<<80, 111, 114, 116, 68, 101, 115, 99, 114, 105, 112, 116, 105, 111, 110,
            84, 76, 86, 40, 34>> \o t.value \o <<34, 41>>)

\* SystemNameTLV("{value}")
SystemNameTLV_fmt(t) ==
    Shown(<<83, 121, 115, 116, 101, 109, 78, 97, 109, 101, 84, 76, 86, 40, 34>>
          \o t.value \o <<34, 41>>)

\* SystemDescriptionTLV("{value}")
SystemDescriptionTLV_fmt(t) ==
    Shown(<<83, 121, 115, 116, 101, 109, 68, 101, 115, 99, 114, 105, 112, 116, 105,
            111, 110, 84, 76, 86, 40, 34>> \o t.value \o <<34, 41>>)

\* systemcapabilities_tlv.rs:104-113  SystemCapabilitiesTLV({supported}, {enabled})
SystemCapabilitiesTLV_fmt(t) ==
    Shown(<<83, 121, 115, 116, 101, 109, 67, 97, 112, 97, 98, 105, 108, 105, 116,
            105, 101, 115, 84, 76, 86, 40>>
          \o Dec(t.num \div 65536) \o <<44, 32>> \o Dec(t.num % 65536) \o <<41>>)

\* managementaddress_tlv.rs:116-122  todo!()
ManagementAddressTLV_fmt(t) == Unimplemented

\* organizationallyspecific_tlv.rs:40-46  todo!()
OrganizationallySpecificTLV_fmt(t) == Unimplemented

\* tlv.rs:90-112  Display for Tlv
Tlv_fmt(t) ==
    CASE t.tlv_type = ChassisId -> ChassisIdTLV_fmt(t)
      [] t.tlv_type = EndOfLLDPDU -> EndOfLLDPDUTLV_fmt(t)
      [] t.tlv_type = ManagementAddress -> ManagementAddressTLV_fmt(t)
      [] t.tlv_type = OrganizationallySpecific -> OrganizationallySpecificTLV_fmt(t)
      [] t.tlv_type = PortId -> PortIdTLV_fmt(t)
      [] t.tlv_type = PortDescription -> PortDescriptionTLV_fmt(t)
      [] t.tlv_type = SystemDescription -> SystemDescriptionTLV_fmt(t)
      [] t.tlv_type = SystemName -> SystemNameTLV_fmt(t)
      [] t.tlv_type = SystemCapabilities -> SystemCapabilitiesTLV_fmt(t)
      [] t.tlv_type = Ttl -> TtlTLV_fmt(t)

\* lldpdu.rs:34-49  Display for Lldpdu: "LLDPDU(" t1 ", " t2 ... ")"
Lldpdu_fmt(self) ==
    LET parts == [i \in 1..Len(self.tlvs) |-> Tlv_fmt(self.tlvs[i])]
    IN  IF \E i \in 1..Len(parts) : ~parts[i].ok THEN Unimplemented
        ELSE Shown(<<76, 76, 68, 80, 68, 85, 40>>
                   \o Join([i \in 1..Len(parts) |-> parts[i].text], <<44, 32>>)
                   \o <<41>>)

(***************************************************************************)
(* agent.rs: Ethernet frames and the agent's two operations                *)
(***************************************************************************)
\* pnet's EthernetPacket: destination (6), source (6), ethertype (2), payload
EthernetHeaderLen == 14

MkFrame(dest, source, ethertype, payload) == dest \o source \o ethertype \o payload

\* EthernetPacket::new(frame) is None for a frame shorter than the header
EthernetPacket_new(frame) == [some |-> Len(frame) >= EthernetHeaderLen]

Frame_get_destination(frame) == Slice0(frame, 0, 6)
Frame_get_source(frame) == Slice0(frame, 6, 12)
Frame_get_ethertype(frame) == Slice0(frame, 12, 14)
Frame_payload(frame) == Tail0(frame, 14)

EtherTypes_Lldp == <<EtherTypeLldpHi, EtherTypeLldpLo>>

\* agent.rs:200  the nearest-bridge multicast address
LldpMulticast == <<1, 128, 194, 0, 0, 14>>

\* agent.rs:113-117
valid_destination ==
    {<<1, 128, 194, 0, 0, 0>>, <<1, 128, 194, 0, 0, 3>>, <<1, 128, 194, 0, 0, 14>>}

\* agent.rs:124-142  the frame is dropped with `continue`
Filtered(frame, mac) ==
    IF ~EthernetPacket_new(frame).some THEN TRUE
    ELSE IF Frame_get_source(frame) = mac THEN TRUE
    ELSE IF Frame_get_destination(frame) \notin valid_destination THEN TRUE
    ELSE Frame_get_ethertype(frame) # EtherTypes_Lldp

\* agent.rs:178-206  the frame announce() builds: [ok, frame]; ok = FALSE when
\* Lldpdu::new panics
AnnounceFrame(mac_address, interface_name) ==
    LET init_tlvs == <<ChassisIdTLV_new(4, "Mac", mac_address),
                       PortIdTLV_new(5, "Other", interface_name),
                       TtlTLV_new(AnnounceTtl)>>
        l == Lldpdu_new(init_tlvs)
    IN  [ok |-> l.ok,
         frame |-> MkFrame(LldpMulticast, mac_address, EtherTypes_Lldp,
                           Lldpdu_bytes(l.lldpdu))]

\* agent.rs:161  the announce is due
AnnounceDueAtInterval(t_now, t_prev, itv) == t_now - t_prev >= itv
AnnounceDue(t_now, t_prev, itv) == t_now - t_prev > itv

(***************************************************************************)
(* Inputs                                                                  *)
(***************************************************************************)
\* agent.rs:244 "foobar" and agent.rs:344
MacFoobar == <<102, 111, 111, 98, 97, 114>>
MacOther == <<170, 187, 204, 221, 238, 255>>
\* "lo"
NameLo == <<108, 111>>

\* lengths of the two large organizationally specific values: with the three
\* mandatory TLVs below (18 bytes) and 6 bytes of header, OUI and subtype per
\* TLV, three of the first make exactly MaxLldpduSize bytes and two of the
\* first plus one of the second one byte more
BigValueLen == (MaxLldpduSize - 18) \div 3 - 6

TlvChassis == ChassisIdTLV_new(4, "Mac", MacFoobar)
TlvPort == PortIdTLV_new(5, "Other", NameLo)
TlvTtl == TtlTLV_new(AnnounceTtl)
TlvOrgA == OrganizationallySpecificTLV_new(<<170, 187, 204>>, 5, Rep(72, BigValueLen))
TlvOrgB == OrganizationallySpecificTLV_new(<<170, 187, 204>>, 5, Rep(72, BigValueLen + 1))

SampleTlvs ==
    {TlvChassis, TlvPort, TlvTtl, EndOfLLDPDUTLV_new,
     PortDescriptionTLV_new(<<112>>), SystemNameTLV_new(<<110>>),
     SystemDescriptionTLV_new(<<100>>), SystemCapabilitiesTLV_of(4 * 65536 + 4),
     ManagementAddressTLV_new("V4", <<192, 0, 2, 1>>, 4, 2, <<0, 8, 21>>),
     TlvOrgA, TlvOrgB}

\* well-formed TLV records as they appear on the wire (header: type in the
\* upper 7 bits of byte 0, 9-bit length in bit 0 of byte 0 and byte 1)
RecChassis == <<2, 7, 4>> \o MacOther
RecPort == <<4, 3, 5>> \o NameLo
RecTtl == <<6, 2, 0, 120>>
RecEnd == <<0, 0>>
RecSystemName == <<10, 2, 104, 105>>
\* an organizationally specific record whose value is 256 bytes long
\* (OUI, subtype, 252 bytes of information): length bit 8 set, low byte 0
RecOrg256 == <<255, 0, 170, 187, 204, 5>> \o Rep(72, 252)
RecOrgSmall == <<254, 5, 170, 187, 204, 5, 72>>
\* a ChassisId record (subtype 7, local) whose value is 256 bytes long
RecChassis256 == <<3, 0, 7>> \o Rep(99, 255)
\* a record of the unregistered type 9, without value
RecUnknown == <<18, 0>>
\* a SystemDescription record of 125 characters
RecSysDesc125 == <<12, 125>> \o Rep(100, 125)

WireRecords ==
    {RecChassis, RecPort, RecTtl, RecEnd, RecSystemName, RecOrg256, RecOrgSmall,
     RecChassis256, RecUnknown, RecSysDesc125}

\* "enp4s0" (agent.rs:278)
NameEnp == <<101, 110, 112, 52, 115, 48>>

\* payloads of received frames: the LLDPDU of agent.rs:339 (ChassisId, PortId,
\* Ttl 120, EndOfLLDPDU), a lone ChassisId, nothing, and a record of the
\* unregistered type 9
PayloadFull(mac) == <<2, 7, 4>> \o mac \o <<4, 7, 3>> \o mac \o RecTtl \o RecEnd
PayloadChassisOnly(mac) == <<2, 7, 4>> \o mac
PayloadUnknownType == <<18, 0>>
\* two ChassisId records (the second TLV is no PortId) and a ChassisId record
\* of the unregistered subtype 9
PayloadTwoChassis(mac) == PayloadChassisOnly(mac) \o PayloadChassisOnly(mac)
PayloadBadSubtype == <<2, 2, 9, 1>>
\* the three mandatory TLVs without a terminator
PayloadNoEnd(mac) == <<2, 7, 4>> \o mac \o <<4, 7, 3>> \o mac \o RecTtl

\* frames the transport may deliver
Frames ==
    {MkFrame(LldpMulticast, MacOther, EtherTypes_Lldp, PayloadFull(MacOther)),
     MkFrame(LldpMulticast, MacFoobar, EtherTypes_Lldp, PayloadFull(MacFoobar)),
     MkFrame(<<1, 128, 194, 0, 0, 3>>, MacOther, EtherTypes_Lldp, PayloadChassisOnly(MacOther)),
     MkFrame(<<1, 128, 194, 0, 0, 0>>, MacFoobar, EtherTypes_Lldp, <<>>),
     MkFrame(<<255, 255, 255, 255, 255, 255>>, MacOther, EtherTypes_Lldp, PayloadFull(MacOther)),
     MkFrame(LldpMulticast, MacOther, <<8, 0>>, PayloadChassisOnly(MacOther)),
     MkFrame(LldpMulticast, MacOther, EtherTypes_Lldp, PayloadUnknownType),
     MkFrame(LldpMulticast, MacOther, EtherTypes_Lldp, PayloadTwoChassis(MacOther)),
     MkFrame(LldpMulticast, MacOther, EtherTypes_Lldp, PayloadBadSubtype),
     MkFrame(LldpMulticast, MacOther, EtherTypes_Lldp, PayloadNoEnd(MacOther)),
     MkFrame(LldpMulticast, MacOther, EtherTypes_Lldp, <<>>),
     <<1, 128, 194, 0, 0, 14, 170>>}

\* what DataLinkSender::send_to returns
SendResults == {"ok", "err", "none"}

RECURSIVE Flatten(_)
Flatten(rs) == IF rs = <<>> THEN <<>> ELSE Head(rs) \o Flatten(Tail(rs))

(***************************************************************************)
(* State                                                                   *)
(***************************************************************************)
VARIABLES
    overflow_checks,  \* the build profile: arithmetic overflow panics (debug)
    lldpdu,     \* the Lldpdu under construction
    last,       \* the last append() call: its argument, outcome and pre-state
    recs,       \* the wire records of the buffer given to from_bytes
    parsed,     \* the outcome of Lldpdu::from_bytes on that buffer
    mac_address,    \* LLDPAgent.mac_address
    interface_name, \* LLDPAgent.interface_name
    interval,       \* LLDPAgent.interval, in clock ticks
    pc,         \* "idle", "running" (inside run), "returned", "panicked"
    run_once,   \* the argument of run()
    now,        \* the monotonic clock (Instant::now)
    t_previous, \* run()'s t_previous
    log,        \* the lines given to the logging sink
    sent,       \* the frames given to the transport: [frame, at, res]
    rx,         \* the frames run() has received
    codec,      \* one TLV being constructed, encoded and decoded
    seen        \* what the last call on the Lldpdu returned, if it was read-only

vars == <<overflow_checks, lldpdu, last, recs, parsed, mac_address, interface_name,
          interval, pc, run_once, now, t_previous, log, sent, rx, codec, seen>>

lldpduVars == <<lldpdu, last, seen>>
parseVars == <<recs, parsed>>
configVars == <<mac_address, interface_name, interval>>
agentVars == <<pc, run_once, now, t_previous, log, sent, rx>>

NoCall ==
    [called |-> FALSE, tlv |-> EndOfLLDPDUTLV_new, ok |-> TRUE, err |-> "none",
     pre |-> EmptyLldpdu]

NotParsed == [done |-> FALSE, ok |-> TRUE, lldpdu |-> EmptyLldpdu]

\* no TLV in hand.  phase: "none", "made" (a constructor was called: made),
\* "encoded" (bytes = made.tlv.bytes()), "given" (bytes came off the wire),
\* "decoded" (back = Tlv::from_bytes(bytes)), "reencoded" (again =
\* back.tlv.bytes()); src tells "made" from "given"; args are the arguments
\* of SystemCapabilitiesTLV::new
NoCodec ==
    [phase |-> "none", src |-> "none", args |-> <<>>, made |-> Panicked,
     bytes |-> <<>>, back |-> Panicked, again |-> <<>>]

\* no read-only call made yet.  op: "none", "bytes", "len", "complete",
\* "getitem", "fmt"; bytes, n, flag, item and text hold what the call of that
\* name returned (item and text with ok = FALSE for a panic)
NoQuery ==
    [op |-> "none", bytes |-> <<>>, n |-> 0, flag |-> FALSE, at |-> 0,
     item |-> Panicked, text |-> Unimplemented]

\* no Lldpdu under construction, no buffer, the agent constructed and idle
InitRest ==
    /\ overflow_checks \in BOOLEAN
    /\ lldpdu = EmptyLldpdu
    /\ last = NoCall
    /\ recs = <<>>
    /\ parsed = NotParsed
    /\ pc = "idle"
    /\ run_once = FALSE
    /\ now = 0
    /\ t_previous = 0
    /\ log = <<>>
    /\ sent = <<>>
    /\ rx = <<>>
    /\ codec = NoCodec
    /\ seen = NoQuery

InitLldpdu ==
    /\ InitRest
    /\ mac_address = MacFoobar
    /\ interface_name = NameLo
    /\ interval = 1

\* lldpdu.append(tlv); a panic is caught by the caller (std::panic::catch_unwind
\* in the tests) and the Lldpdu stays in use.  At most max appends are
\* accepted.
AppendUpTo(tlv, max) ==
    /\ LET r == Lldpdu_append(lldpdu, tlv)
       IN  /\ Lldpdu_len(lldpdu) < max \/ ~r.ok
           /\ lldpdu' = r.lldpdu
           /\ last' = [called |-> TRUE, tlv |-> tlv, ok |-> r.ok, err |-> r.err,
                       pre |-> lldpdu]
           /\ seen' = NoQuery
           /\ UNCHANGED <<overflow_checks, codec, parseVars, configVars, agentVars>>

AppendCall(tlv) == AppendUpTo(tlv, MaxTlvs)

NextLldpdu == \E tlv \in SampleTlvs : AppendCall(tlv)

SpecLldpdu == InitLldpdu /\ [][NextLldpdu]_vars

\* Lldpdu::getitem: the TLV at position item, a panic when out of range
Lldpdu_getitem(self, item) ==
    IF item < Len(self.tlvs) THEN Decoded(At(self.tlvs, item)) ELSE Panicked

\* a call of a method that takes &self leaves every field as it was
Observe(result) ==
    /\ seen' = result
    /\ UNCHANGED <<overflow_checks, codec, lldpdu, last, parseVars, configVars, agentVars>>

\* lldpdu.bytes()
LldpduBytesCall == Observe([NoQuery EXCEPT !.op = "bytes", !.bytes = Lldpdu_bytes(lldpdu)])

\* lldpdu.len()
LenCall == Observe([NoQuery EXCEPT !.op = "len", !.n = Lldpdu_len(lldpdu)])

\* lldpdu.complete()
CompleteCall == Observe([NoQuery EXCEPT !.op = "complete", !.flag = Lldpdu_complete(lldpdu)])

\* lldpdu.getitem(item)
GetitemCall(item) ==
    Observe([NoQuery EXCEPT !.op = "getitem", !.at = item,
                            !.item = Lldpdu_getitem(lldpdu, item)])

\* format!("{}", lldpdu)
DisplayCall == Observe([NoQuery EXCEPT !.op = "fmt", !.text = Lldpdu_fmt(lldpdu)])

NextQuery ==
    \/ \E tlv \in SampleTlvs : AppendUpTo(tlv, MaxQueried)
    \/ LldpduBytesCall
    \/ LenCall
    \/ CompleteCall
    \/ \E item \in 0..MaxQueried : GetitemCall(item)
    \/ DisplayCall

\* appends interleaved with the read-only calls
SpecQuery == InitLldpdu /\ [][NextQuery]_vars

\* the environment puts one more well-formed record into the buffer
PushRecord(rec) ==
    /\ ~parsed.done
    /\ Len(recs) < MaxRecords
    /\ recs' = Append(recs, rec)
    /\ UNCHANGED <<overflow_checks, codec, lldpduVars, parsed, configVars, agentVars>>

\* Lldpdu::from_bytes(buf)
FromBytesCall ==
    /\ ~parsed.done
    /\ LET r == Lldpdu_from_bytes(Flatten(recs), overflow_checks)
       IN  parsed' = [done |-> TRUE, ok |-> r.ok, lldpdu |-> r.lldpdu]
    /\ UNCHANGED <<overflow_checks, codec, lldpduVars, recs, configVars, agentVars>>

NextParse == (\E rec \in WireRecords : PushRecord(rec)) \/ FromBytesCall

SpecParse == InitLldpdu /\ [][NextParse]_vars

(***************************************************************************)
(* The agent                                                               *)
(***************************************************************************)
InitAgent ==
    /\ InitRest
    /\ mac_address = MacFoobar
    /\ interface_name = NameLo
    /\ interval \in {1, 2}

InitAnnounce ==
    /\ InitRest
    /\ mac_address \in {MacFoobar, MacOther}
    /\ interface_name \in {NameLo, NameEnp}
    /\ interval = 1

\* agent.rs:209-213  send_to answered Some(Err(_)): announce() panics
SendFailedNever(res) == FALSE
SendFailed(res) == res = "err"

\* agent.rs:154-157  what rx records when the receiver returns Err instead of
\* a frame: no byte sequence
RxError == <<-1>>

\* agent.rs:176-214  announce(): the frame is built and given to the transport;
\* Lldpdu::new's panic and Some(Err) are panics, Some(Ok) and None return.
\* [sent, ok] after a call at time t with the transport answering res
Announce(t, res) ==
    LET a == AnnounceFrame(mac_address, interface_name)
    IN  IF ~a.ok THEN [sent |-> sent, ok |-> FALSE]
        ELSE [sent |-> Append(sent, [frame |-> a.frame, at |-> t, res |-> res]),
              ok |-> ~SendFailed(res)]

\* a.announce() called on an agent that is not running (agent.rs:250)
AnnounceCall(res) ==
    /\ pc = "idle"
    /\ Len(sent) < MaxSent
    /\ LET r == Announce(now, res)
       IN  /\ sent' = r.sent
           /\ pc' = IF r.ok THEN "idle" ELSE "panicked"
    /\ UNCHANGED <<overflow_checks, codec, lldpduVars, parseVars, configVars,
                   run_once, now, t_previous, log, rx>>

NextAnnounce == \E res \in SendResults : AnnounceCall(res)

SpecAnnounce == InitAnnounce /\ [][NextAnnounce]_vars

\* agent.rs:110-111  run(run_once) is entered
RunCall(ro) ==
    /\ pc = "idle"
    /\ pc' = "running"
    /\ run_once' = ro
    /\ t_previous' = now
    /\ UNCHANGED <<overflow_checks, codec, lldpduVars, parseVars, configVars, now, log, sent, rx>>

\* one iteration of the loop: the blocking receive returns frame after dt
\* ticks and the frame is dropped by one of the `continue`s (agent.rs:124-142)
RecvFiltered(frame, dt) ==
    /\ pc = "running"
    /\ Len(rx) < MaxFrames
    /\ now + dt <= MaxTime
    /\ Filtered(frame, mac_address)
    /\ now' = now + dt
    /\ rx' = Append(rx, frame)
    /\ UNCHANGED <<overflow_checks, codec, lldpduVars, parseVars, configVars,
                   pc, run_once, t_previous, log, sent>>

\* agent.rs:145-148  Lldpdu::from_bytes or format!("{}", lldpdu) panics: the
\* panic is not caught and ends run()
DecodePanicsNever(l, line) == FALSE
DecodePanics(l, line) == ~l.ok \/ ~line.ok

\* one iteration of the loop: the receive returns frame after dt ticks, the
\* frame passes the filter, is decoded and logged (agent.rs:144-152), and the
\* announce timer is checked (agent.rs:159-164)
RecvLldp(frame, dt, res) ==
    /\ pc = "running"
    /\ Len(rx) < MaxFrames
    /\ now + dt <= MaxTime
    /\ ~Filtered(frame, mac_address)
    /\ now' = now + dt
    /\ rx' = Append(rx, frame)
    /\ LET l == Lldpdu_from_bytes(Frame_payload(frame), overflow_checks)
           line == Lldpdu_fmt(l.lldpdu)
           t_now == now + dt
           a == Announce(t_now, res)
       IN  IF DecodePanics(l, line)
           THEN /\ pc' = "panicked"
                /\ UNCHANGED <<t_previous, log, sent>>
           ELSE /\ log' = Append(log, line.text)
                /\ IF run_once
                   THEN /\ pc' = "returned"
                        /\ UNCHANGED <<t_previous, sent>>
                   ELSE IF AnnounceDue(t_now, t_previous, interval)
                   THEN /\ sent' = a.sent
                        /\ pc' = IF a.ok THEN "running" ELSE "panicked"
                        /\ t_previous' = IF a.ok THEN t_now ELSE t_previous
                   ELSE UNCHANGED <<pc, t_previous, sent>>
    /\ UNCHANGED <<overflow_checks, codec, lldpduVars, parseVars, configVars, run_once>>

\* the receive returns Err (agent.rs:154-157)
RecvError ==
    /\ pc = "running"
    /\ pc' = "panicked"
    /\ rx' = Append(rx, RxError)
    /\ UNCHANGED <<overflow_checks, codec, lldpduVars, parseVars, configVars,
                   run_once, now, t_previous, log, sent>>

DeltaTicks == 0..MaxTime

NextAgent ==
    \/ \E ro \in BOOLEAN : RunCall(ro)
    \/ \E frame \in Frames, dt \in DeltaTicks : RecvFiltered(frame, dt)
    \/ \E frame \in Frames, dt \in DeltaTicks, res \in SendResults : RecvLldp(frame, dt, res)
    \/ RecvError

SpecAgent == InitAgent /\ [][NextAgent]_vars

(***************************************************************************)
(* One TLV: constructed and encoded, or taken off the wire, then decoded   *)
(* and encoded again                                                       *)
(***************************************************************************)
Ipv4Sample == <<192, 0, 2, 1>>
\* 2001:db8::1
Ipv6Sample == <<32, 1, 13, 184, 0, 0, 0, 0, 0, 0, 0, 0, 0, 0, 0, 1>>
\* the OID of the example at managementaddress_tlv.rs:98
OidSample == <<0, 8, 21>>

\* TLVs whose len() is 255, 256 and 511: the 9-bit length needs bit 0 of
\* byte 0 from 256 on
LongTlvs ==
    {ChassisIdTLV_new(7, "Other", Rep(99, 254)), ChassisIdTLV_new(7, "Other", Rep(99, 255)),
     SystemDescriptionTLV_new(Rep(100, 255)), SystemDescriptionTLV_new(Rep(100, 256)),
     SystemDescriptionTLV_new(Rep(100, 511)),
     OrganizationallySpecificTLV_new(<<170, 187, 204>>, 5, Rep(72, 251)),
     OrganizationallySpecificTLV_new(<<170, 187, 204>>, 5, Rep(72, 252)),
     PortIdTLV_new(5, "Other", Rep(112, 255))}

\* the TLVs the constructors other than SystemCapabilitiesTLV::new are
\* called for
CodecTlvs ==
    {ChassisIdTLV_new(4, "Mac", MacFoobar), ChassisIdTLV_new(5, "V4", Ipv4Sample),
     ChassisIdTLV_new(5, "V6", Ipv6Sample), ChassisIdTLV_new(7, "Other", NameLo),
     PortIdTLV_new(3, "Mac", MacFoobar), PortIdTLV_new(4, "V4", Ipv4Sample),
     PortIdTLV_new(4, "V6", Ipv6Sample), PortIdTLV_new(5, "Other", NameEnp),
     EndOfLLDPDUTLV_new,
     PortDescriptionTLV_new(<<112>>), PortDescriptionTLV_new(<<>>),
     SystemNameTLV_new(<<110>>), SystemNameTLV_new(<<>>),
     SystemDescriptionTLV_new(<<100>>), SystemDescriptionTLV_new(<<>>),
     OrganizationallySpecificTLV_new(<<170, 187, 204>>, 5, <<72>>),
     OrganizationallySpecificTLV_new(<<170, 187, 204>>, 5, <<>>)}
    \cup {TtlTLV_new(ttl) : ttl \in {0, 60, 120, 257, 400, 65535}}
    \cup LongTlvs
    \cup {ManagementAddressTLV_new("V4", Ipv4Sample, 4, st, oid) :
             st \in 1..3, oid \in {<<>>, OidSample}}
    \cup {ManagementAddressTLV_new("V6", Ipv6Sample, 4, 2, oid) : oid \in {<<>>, OidSample}}

\* capability bitmaps: none, Bridge, Bridge | Router, Router
CapBitmaps == {0, 4, 20, 16}

\* well-formed ManagementAddress records, without and with an OID
RecManagementAddress == <<16, 12, 5, 1>> \o Ipv4Sample \o <<2, 0, 0, 0, 4, 0>>
RecManagementAddressOid == <<16, 15, 5, 1>> \o Ipv4Sample \o <<2, 0, 0, 0, 4, 3>> \o OidSample

\* well-formed records, one or more of each kind
WellFormedRecords ==
    {RecChassis, <<2, 6, 5, 1>> \o Ipv4Sample, RecPort, <<4, 7, 3>> \o MacOther,
     RecTtl, <<6, 2, 1, 1>>, RecEnd,
     <<8, 1, 112>>, RecSystemName, <<10, 0>>, <<12, 1, 100>>,
     <<14, 4, 0, 20, 0, 4>>, RecManagementAddress, RecManagementAddressOid,
     RecOrgSmall}

\* buffers that are not 2 + length bytes long, length being the header's
\* length field (ttl_tlv.rs:143-153, chassisid_tlv.rs:469-479)
MalformedRecords ==
    {<<6, 3, 0, 120, 0>>, <<6, 1, 0, 120>>, <<6, 2, 0, 120, 0>>, <<6, 1, 120>>,
     <<6, 4, 0, 120>>,
     <<2, 8, 4>> \o MacOther, <<4, 9, 3>> \o MacOther, <<0, 0, 0>>,
     <<10, 3, 104, 105>>, <<14, 5, 0, 20, 0, 4>>, <<254, 9, 170, 187, 204, 5, 72>>,
     <<16, 12, 5, 1>> \o Ipv4Sample \o <<2, 0, 0, 0, 4, 0, 7>>}

\* systemcapabilities_tlv.rs:352: enabled bits that are not supported
RecCapabilityMismatch == <<14, 4, 0, 0, 0, 20>>

\* ChassisId and PortId records of the MacAddress and NetworkAddress
\* subtypes whose value has the wrong size or the wrong family prefix
\* (chassisid_tlv.rs:475-493), and one well-formed IPv6 record of each
AddressRecords ==
    {<<2, 8, 4>> \o MacOther \o <<17>>, <<2, 6, 4>> \o Slice0(MacOther, 0, 5),
     <<2, 4, 5, 192, 0, 2>>, <<2, 5, 5, 1, 192, 0, 2>>,
     <<2, 7, 5, 1>> \o Ipv4Sample \o <<9>>, <<2, 6, 5, 3>> \o Ipv4Sample,
     <<2, 6, 5, 2>> \o Ipv4Sample, <<2, 18, 5, 1>> \o Ipv6Sample,
     <<2, 17, 5, 2>> \o Slice0(Ipv6Sample, 0, 15), <<2, 18, 5, 2>> \o Ipv6Sample,
     <<2, 2, 5, 1>>, <<2, 1, 5>>,
     <<4, 8, 3>> \o MacOther \o <<17>>, <<4, 6, 3>> \o Slice0(MacOther, 0, 5),
     <<4, 4, 4, 192, 0, 2>>, <<4, 5, 4, 1, 192, 0, 2>>,
     <<4, 7, 4, 1>> \o Ipv4Sample \o <<9>>, <<4, 6, 4, 3>> \o Ipv4Sample,
     <<4, 6, 4, 2>> \o Ipv4Sample, <<4, 18, 4, 1>> \o Ipv6Sample,
     <<4, 17, 4, 2>> \o Slice0(Ipv6Sample, 0, 15), <<4, 18, 4, 2>> \o Ipv6Sample,
     <<4, 6, 4, 1>> \o Ipv4Sample, <<4, 2, 4, 1>>, <<4, 1, 4>>}

CodecRecords ==
    WellFormedRecords \cup MalformedRecords \cup {RecCapabilityMismatch}
        \cup AddressRecords

\* a constructor other than SystemCapabilitiesTLV::new returns tlv
NewCall(tlv) ==
    /\ codec.phase = "none"
    /\ codec' = [codec EXCEPT !.phase = "made", !.src = "made", !.made = Decoded(tlv)]
    /\ UNCHANGED <<overflow_checks, lldpduVars, parseVars, configVars, agentVars>>

\* SystemCapabilitiesTLV::new(supported, enabled)
NewCapabilitiesCall(supported, enabled) ==
    /\ codec.phase = "none"
    /\ codec' = [codec EXCEPT !.phase = "made", !.src = "made",
                              !.args = <<supported, enabled>>,
                              !.made = SystemCapabilitiesTLV_new(supported, enabled,
                                                                 overflow_checks)]
    /\ UNCHANGED <<overflow_checks, lldpduVars, parseVars, configVars, agentVars>>

\* tlv.bytes() on the TLV constructed
BytesCall ==
    /\ codec.phase = "made"
    /\ codec.made.ok
    /\ codec' = [codec EXCEPT !.phase = "encoded", !.bytes = Tlv_bytes(codec.made.tlv)]
    /\ UNCHANGED <<overflow_checks, lldpduVars, parseVars, configVars, agentVars>>

\* a record arrives from the wire
GivenBytes(bytes) ==
    /\ codec.phase = "none"
    /\ codec' = [codec EXCEPT !.phase = "given", !.src = "given", !.bytes = bytes]
    /\ UNCHANGED <<overflow_checks, lldpduVars, parseVars, configVars, agentVars>>

\* Tlv::from_bytes(bytes)
TlvFromBytesCall ==
    /\ codec.phase \in {"encoded", "given"}
    /\ codec' = [codec EXCEPT !.phase = "decoded",
                              !.back = Tlv_from_bytes(codec.bytes, overflow_checks)]
    /\ UNCHANGED <<overflow_checks, lldpduVars, parseVars, configVars, agentVars>>

\* tlv.bytes() on the TLV decoded
BytesAgainCall ==
    /\ codec.phase = "decoded"
    /\ codec.back.ok
    /\ codec' = [codec EXCEPT !.phase = "reencoded", !.again = Tlv_bytes(codec.back.tlv)]
    /\ UNCHANGED <<overflow_checks, lldpduVars, parseVars, configVars, agentVars>>

NextTlv ==
    \/ \E tlv \in CodecTlvs : NewCall(tlv)
    \/ \E supported \in CapBitmaps, enabled \in CapBitmaps :
          NewCapabilitiesCall(supported, enabled)
    \/ BytesCall
    \/ \E bytes \in CodecRecords : GivenBytes(bytes)
    \/ TlvFromBytesCall
    \/ BytesAgainCall

SpecTlv == InitLldpdu /\ [][NextTlv]_vars

(***************************************************************************)
(* Claims about the container (SpecLldpdu)                                 *)
(***************************************************************************)
TypeAt(self, i) == self.tlvs[i].tlv_type

CountType(self, type) == Cardinality({i \in 1..Len(self.tlvs) : TypeAt(self, i) = type})

PresentIn(self, type) == \E i \in 1..Len(self.tlvs) : TypeAt(self, i) = type

\* C1: in every reachable Lldpdu the element at position 0, if present, is a
\* ChassisId, the one at position 1 a PortId and the one at position 2 a Ttl.
C1_MandatoryPositions ==
    /\ Lldpdu_len(lldpdu) >= 1 => TypeAt(lldpdu, 1) = ChassisId
    /\ Lldpdu_len(lldpdu) >= 2 => TypeAt(lldpdu, 2) = PortId
    /\ Lldpdu_len(lldpdu) >= 3 => TypeAt(lldpdu, 3) = Ttl

\* C1 witness: an Lldpdu with optional TLVs behind the three mandatory ones
\* to which a rejected append has been made
C1_Witness ==
    /\ Lldpdu_len(lldpdu) >= 4
    /\ last.called /\ ~last.ok

\* C2: at most one EndOfLLDPDU, and it is the last element; once one has been
\* appended every later append, of any kind, is rejected.
C2_SingleTerminator ==
    /\ CountType(lldpdu, EndOfLLDPDU) <= 1
    /\ \A i \in 1..Lldpdu_len(lldpdu) :
          TypeAt(lldpdu, i) = EndOfLLDPDU => i = Lldpdu_len(lldpdu)
    /\ (last.called /\ PresentIn(last.pre, EndOfLLDPDU)) => (~last.ok /\ lldpdu = last.pre)

\* C2 witness: a second EndOfLLDPDU was offered to a terminated Lldpdu
C2_Witness ==
    /\ last.called
    /\ PresentIn(last.pre, EndOfLLDPDU)
    /\ last.tlv.tlv_type = EndOfLLDPDU

\* C3: appending a ChassisId, PortId or Ttl is rejected whenever that kind is
\* already present, in particular whenever three or more TLVs are held; each
\* of the three kinds occurs at most once.
C3_NoDuplicateMandatory ==
    /\ \A type \in MandatoryTypes : CountType(lldpdu, type) <= 1
    /\ (last.called /\ last.tlv.tlv_type \in MandatoryTypes) =>
          /\ PresentIn(last.pre, last.tlv.tlv_type) => ~last.ok
          /\ Lldpdu_len(last.pre) >= 3 => ~last.ok

\* C3 witness: a Ttl offered behind the mandatory three, with room left
C3_Witness ==
    /\ last.called
    /\ last.tlv.tlv_type = Ttl
    /\ Lldpdu_len(last.pre) >= 3
    /\ ~last.pre.has_end
    /\ last.pre.size + Len(Tlv_bytes(last.tlv)) <= MaxLldpduSize

\* the ordering rules of the container, size aside: what makes an append
\* "otherwise valid"
OtherwiseValid(self, type) ==
    /\ ~PresentIn(self, EndOfLLDPDU)
    /\ Lldpdu_len(self) = 0 => type = ChassisId
    /\ Lldpdu_len(self) = 1 => type = PortId
    /\ Lldpdu_len(self) = 2 => type = Ttl
    /\ Lldpdu_len(self) >= 3 => type \notin MandatoryTypes

\* C4: an append is rejected for size exactly when the cumulative size plus
\* the encoded length of the new TLV exceeds 1500; an otherwise valid append
\* that brings the total to 1500 or less succeeds; the cumulative size never
\* exceeds 1500.
C4_SizeBoundary ==
    /\ lldpdu.size <= MaxLldpduSize
    /\ Len(Lldpdu_bytes(lldpdu)) <= MaxLldpduSize
    /\ last.called =>
          LET total == last.pre.size + Len(Tlv_bytes(last.tlv))
          IN  /\ (last.err = "size") <=> (total > MaxLldpduSize)
              /\ (OtherwiseValid(last.pre, last.tlv.tlv_type) /\ total <= MaxLldpduSize)
                    => (last.ok /\ lldpdu.size = total)

\* C4 witness: an Lldpdu of exactly 1500 bytes was built and the next append
\* was rejected for size
C4_Witness ==
    /\ last.called /\ last.err = "size"
    /\ last.pre.size = MaxLldpduSize
    /\ OtherwiseValid(last.pre, last.tlv.tlv_type)

\* the crossing append that would make 1501 bytes is rejected
C4_Witness1501 ==
    /\ last.called /\ last.err = "size"
    /\ last.pre.size + Len(Tlv_bytes(last.tlv)) = MaxLldpduSize + 1

RECURSIVE DecodeAll(_, _)
DecodeAll(rs, oc) ==
    IF rs = <<>> THEN [ok |-> TRUE, tlvs |-> <<>>]
    ELSE LET d == Tlv_from_bytes(Head(rs), oc)
             rest == DecodeAll(Tail(rs), oc)
         IN  [ok |-> d.ok /\ rest.ok, tlvs |-> <<d.tlv>> \o rest.tlvs]

\* appending the decoded records, in wire order, to an empty Lldpdu
OneAtATime(rs, oc) ==
    LET d == DecodeAll(rs, oc)
    IN  IF d.ok THEN AppendAll(EmptyLldpdu, d.tlvs)
        ELSE [ok |-> FALSE, err |-> "decode", lldpdu |-> EmptyLldpdu]

\* C6: from_bytes on the concatenation of n well-formed records behaves like
\* appending the n decoded records one at a time to an empty Lldpdu: n TLVs
\* with the kinds in wire order when every append is accepted, a failure when
\* one is rejected.
C6_FromBytesIsAppends ==
    parsed.done =>
        LET ref == OneAtATime(recs, overflow_checks)
        IN  IF ref.ok
            THEN /\ parsed.ok
                 /\ Lldpdu_len(parsed.lldpdu) = Len(recs)
                 /\ \A i \in 1..Len(recs) : TypeAt(parsed.lldpdu, i) = recs[i][1] \div 2
                 /\ parsed.lldpdu = ref.lldpdu
            ELSE ~parsed.ok

\* C6 restricted to buffers whose records carry fewer than 256 value bytes
C6_FromBytesIsAppendsShort ==
    (\A i \in 1..Len(recs) : recs[i][1] % 2 = 0) => C6_FromBytesIsAppends

\* the record's 7-bit type code is none of the ten registered ones
UnknownCode(rec) == (rec[1] \div 2) \notin (0..8) \cup {127}

\* C12: Lldpdu::from_bytes and Tlv::from_bytes fail on any record whose type
\* code is not one of 0..8 or 127, and TlvType::try_from succeeds exactly for
\* those ten codes: a buffer holding a record of an unknown code yields no
\* Lldpdu.
C12_UnknownTypeFails ==
    /\ \A v \in 0..255 : TlvType_try_from(v).ok <=> (v \in (0..8) \cup {127})
    /\ \A i \in 1..Len(recs) :
           UnknownCode(recs[i]) => ~Tlv_from_bytes(recs[i], overflow_checks).ok
    /\ (parsed.done /\ \E i \in 1..Len(recs) : UnknownCode(recs[i])) => ~parsed.ok

\* C12 but for Lldpdu::from_bytes: the type lookup and Tlv::from_bytes on
\* one record
C12_UnknownTypeFailsTlv ==
    /\ \A v \in 0..255 : TlvType_try_from(v).ok <=> (v \in (0..8) \cup {127})
    /\ \A i \in 1..Len(recs) :
           UnknownCode(recs[i]) => ~Tlv_from_bytes(recs[i], overflow_checks).ok

(***************************************************************************)
(* Claims about the agent (SpecAgent, SpecAnnounce)                        *)
(***************************************************************************)
\* the three conditions on a received frame, as the specification states them
PassesFilter(frame) ==
    /\ Len(frame) >= EthernetHeaderLen
    /\ SubSeq(frame, 7, 12) # mac_address
    /\ SubSeq(frame, 1, 6) \in
          {<<1, 128, 194, 0, 0, 0>>, <<1, 128, 194, 0, 0, 3>>, <<1, 128, 194, 0, 0, 14>>}
    /\ SubSeq(frame, 13, 14) = <<136, 204>>

\* the frame passes the filter and its payload decodes as an Lldpdu
Accepted(frame) ==
    /\ PassesFilter(frame)
    /\ Lldpdu_from_bytes(SubSeq(frame, 15, Len(frame)), overflow_checks).ok

AcceptedCount == Cardinality({i \in 1..Len(rx) : Accepted(rx[i])})

\* C7: during run() the logging sink is invoked exactly once for each
\* received frame that passes the filter and whose payload decodes, and never
\* for any other frame.
C7_LogOncePerAcceptedFrame == Len(log) = AcceptedCount

\* C8: after each receive attempt, accepted or filtered, the elapsed time
\* since the last announce is compared with the interval and announce() is
\* called if due, with the timestamp reset: when an iteration of the loop has
\* completed and run() goes on, no announce is overdue at the instant of that
\* receive.
C8_AnnounceCheckedAfterEachReceive ==
    (pc = "running" /\ Len(rx) > 0) => ~(now - t_previous > interval)

\* C9: with run_once set, run() terminates right after the first accepted
\* frame has been logged, with exactly one call to the logging sink; a
\* filtered frame never terminates the loop, and with run_once unset an
\* accepted frame does not terminate it.
C9_RunOnceStopsAfterFirstAccepted ==
    /\ (run_once /\ AcceptedCount >= 1) => (pc = "returned" /\ Len(log) = 1)
    /\ pc = "returned" => (run_once /\ Accepted(rx[Len(rx)]) /\ AcceptedCount = 1)
    /\ ~run_once => pc # "returned"

\* the frame of the specification: destination 01:80:C2:00:00:0E, the local
\* MAC, ethertype 0x88CC, ChassisId(MacAddress, MAC), PortId(InterfaceName,
\* name), Ttl(60) as 06 02 00 3C, no terminator
ExpectedAnnounceFrame ==
    <<1, 128, 194, 0, 0, 14>> \o mac_address \o <<136, 204>>
    \o <<2, 7, 4>> \o mac_address
    \o <<4, 1 + Len(interface_name), 5>> \o interface_name
    \o <<6, 2, 0, 60>>

\* C10: each call of announce() submits one frame to the transport, made of
\* the multicast destination, the local MAC, ethertype 0x88CC and the
\* encodings of ChassisId, PortId and Ttl(60) (06 02 00 3C), in that order.
C10_AnnounceFrame ==
    \A i \in 1..Len(sent) : sent[i].frame = ExpectedAnnounceFrame

\* the frame announce() submits, but for the byte order of the Ttl value
C10_AnnounceFrameTtlSwapped ==
    \A i \in 1..Len(sent) :
        sent[i].frame = SubSeq(ExpectedAnnounceFrame, 1, Len(ExpectedAnnounceFrame) - 2)
                            \o <<60, 0>>

\* the frame passes the filter and its payload is no valid LLDPDU: a record
\* fails to decode or the container rejects a record
Malformed(frame) ==
    /\ PassesFilter(frame)
    /\ ~Lldpdu_from_bytes(SubSeq(frame, 15, Len(frame)), overflow_checks).ok

\* C11: when a frame passes the filter but its payload is not a valid LLDPDU,
\* run() terminates abnormally: the step that receives it ends in a panic
\* without a call of the logging sink and without a send, and nothing happens
\* after a panic (no later receive, no later announce).
C11_MalformedFrameIsFatal ==
    [][/\ pc # "panicked"
       /\ (Len(rx') = Len(rx) + 1 /\ Malformed(rx'[Len(rx')]))
             => (pc' = "panicked" /\ log' = log /\ sent' = sent)]_vars

\* a malformed frame was received after a frame that was logged, and run()
\* has panicked
C11_Witness ==
    /\ pc = "panicked"
    /\ Len(rx) = 2
    /\ Len(log) = 1
    /\ Malformed(rx[2])
    /\ SubSeq(rx[2], 15, Len(rx[2])) = PayloadTwoChassis(MacOther)

\* C13: a transport failure is fatal: when the transport reports a send
\* failure during announce(), or a receive error during run(), the agent
\* terminates abnormally in that step, and nothing happens afterwards.
C13_TransportFailureIsFatal ==
    [][/\ pc # "panicked"
       /\ (Len(sent') = Len(sent) + 1 /\ sent'[Len(sent')].res = "err")
             => pc' = "panicked"
       /\ (Len(rx') = Len(rx) + 1 /\ rx'[Len(rx')] = RxError)
             => pc' = "panicked"]_vars

\* a send failed during an announce made from run() after the second frame
C13_Witness ==
    /\ pc = "panicked"
    /\ Len(rx) = 2
    /\ Len(sent) = 1
    /\ sent[1].res = "err"

\* the receiver returned an error after a frame had been received
C13_WitnessReceive ==
    /\ pc = "panicked"
    /\ Len(rx) = 2
    /\ rx[2] = RxError

(***************************************************************************)
(* Claims about one TLV (SpecTlv)                                          *)
(***************************************************************************)
\* C14: for every TLV kind and every valid field combination, decoding the
\* encoding gives back a TLV with the same fields: decode(encode(tlv)) = tlv.
C14_DecodeOfEncode ==
    (codec.src = "made" /\ codec.phase \in {"decoded", "reencoded"})
        => (codec.back.ok /\ codec.back.tlv = codec.made.tlv)

\* the second half of C15: for a buffer of records that each decode and that
\* the container accepts in this order, Lldpdu::from_bytes(buf).bytes() = buf
C15_LldpduBytesOfFromBytes ==
    (parsed.done /\ OneAtATime(recs, overflow_checks).ok)
        => (parsed.ok /\ Lldpdu_bytes(parsed.lldpdu) = Flatten(recs))

\* C15: for every well-formed TLV record of every kind, decoding succeeds
\* and re-encoding the decoded TLV reproduces the record exactly:
\* encode(decode(bytes)) = bytes; likewise Lldpdu::from_bytes(buf).bytes() =
\* buf for every well-formed buffer.
C15_EncodeOfDecode ==
    /\ (codec.src = "given" /\ codec.bytes \in WellFormedRecords
          /\ codec.phase \in {"decoded", "reencoded"}) => codec.back.ok
    /\ (codec.src = "given" /\ codec.bytes \in WellFormedRecords
          /\ codec.phase = "reencoded") => codec.again = codec.bytes
    /\ C15_LldpduBytesOfFromBytes

\* tlv.len() for a TLV of any kind
LenOf(t) ==
    CASE t.tlv_type = ChassisId -> ChassisIdTLV_len(t)
      [] t.tlv_type = PortId -> PortIdTLV_len(t)
      [] t.tlv_type = Ttl -> TtlTLV_len(t)
      [] t.tlv_type = EndOfLLDPDU -> EndOfLLDPDUTLV_len(t)
      [] t.tlv_type = SystemCapabilities -> SystemCapabilitiesTLV_len(t)
      [] t.tlv_type = ManagementAddress -> ManagementAddressTLV_len(t)
      [] t.tlv_type = OrganizationallySpecific -> OrganizationallySpecificTLV_len(t)
      [] OTHER -> StringTLV_len(t)

\* C16: for every TLV of every kind, the length of its encoding is exactly 2
\* plus its value length: len(tlv.bytes()) = 2 + tlv.len().
C16_EncodedLength ==
    (codec.src = "made" /\ codec.phase \in {"encoded", "decoded", "reencoded"})
        => Len(codec.bytes) = 2 + LenOf(codec.made.tlv)

\* C16 for the kinds other than ManagementAddress
C16_EncodedLengthButManagementAddress ==
    codec.made.tlv.tlv_type # ManagementAddress => C16_EncodedLength

\* the two bitmaps of a SystemCapabilities record of 6 bytes
SupportedOf(bytes) == bytes[3] * 256 + bytes[4]
EnabledOf(bytes) == bytes[5] * 256 + bytes[6]

\* every bit of enabled is a bit of supported
Subset16(enabled, supported) == BitAnd(enabled, supported) = enabled

\* C17: SystemCapabilitiesTLV::new(supported, enabled), and decoding a
\* SystemCapabilities record, fail whenever enabled has a bit that supported
\* lacks and succeed whenever enabled is a subset of supported; the value of
\* the TLV holds supported in its upper and enabled in its lower 16 bits.
C17_EnabledWithinSupported ==
    /\ codec.args # <<>> =>
          /\ codec.made.ok <=> Subset16(codec.args[2], codec.args[1])
          /\ codec.made.ok => codec.made.tlv.num = codec.args[1] * 65536 + codec.args[2]
    /\ (codec.src = "given" /\ codec.phase \in {"decoded", "reencoded"}
          /\ Len(codec.bytes) = 6 /\ codec.bytes[1] = 14 /\ codec.bytes[2] = 4) =>
          /\ codec.back.ok <=> Subset16(EnabledOf(codec.bytes), SupportedOf(codec.bytes))
          /\ codec.back.ok =>
                codec.back.tlv.num = SupportedOf(codec.bytes) * 65536 + EnabledOf(codec.bytes)

\* the case the decoder gets right without overflow checks: a record whose
\* enabled bits are not supported is rejected
C17_DecoderRejectsMismatch ==
    (codec.src = "given" /\ codec.phase = "decoded"
       /\ codec.bytes = RecCapabilityMismatch) => ~codec.back.ok

\* the 9-bit length field of a record's header
HeaderLength(bytes) == bytes[2] + 256 * (bytes[1] % 2)

\* the buffer is as long as its header says
ExactSize(bytes) == Len(bytes) = 2 + HeaderLength(bytes)

\* C18: for every TLV kind the decoder fails unless the buffer is exactly
\* 2 + length bytes long, length being the header's length field; the Ttl
\* decoder fails for a header length other than 2 and for a buffer whose size
\* disagrees with the header length.
C18_DecoderChecksSize ==
    (codec.src = "given" /\ codec.phase \in {"decoded", "reencoded"}) =>
        /\ ~ExactSize(codec.bytes) => ~codec.back.ok
        /\ (codec.bytes[1] \div 2 = Ttl /\ HeaderLength(codec.bytes) # 2) => ~codec.back.ok

\* C18 for ChassisId records alone
C18_ChassisIdChecksSize ==
    codec.bytes # <<>> /\ codec.bytes[1] \div 2 = ChassisId => C18_DecoderChecksSize

\* C19: for every 16-bit ttl, TtlTLV::new(ttl).bytes() is 06, 02, ttl >> 8,
\* ttl & 0xFF: the value in network byte order, the order in which
\* TtlTLV::new_from_bytes reads it.
C19_TtlNetworkByteOrder ==
    /\ (codec.src = "made" /\ codec.made.tlv.tlv_type = Ttl
          /\ codec.phase \in {"encoded", "decoded", "reencoded"}) =>
          codec.bytes = <<6, 2, codec.made.tlv.num \div 256, codec.made.tlv.num % 256>>
    /\ (codec.src = "given" /\ Len(codec.bytes) = 4 /\ codec.bytes[1] = 6
          /\ codec.bytes[2] = 2 /\ codec.phase \in {"decoded", "reencoded"}) =>
          (codec.back.ok /\ codec.back.tlv.num = codec.bytes[3] * 256 + codec.bytes[4])

\* the decoder's half of C19: TtlTLV::new_from_bytes reads the most
\* significant byte first
C19_TtlDecoderByteOrder ==
    (codec.src = "given" /\ Len(codec.bytes) = 4 /\ codec.bytes[1] = 6
       /\ codec.bytes[2] = 2 /\ codec.phase \in {"decoded", "reencoded"}) =>
       (codec.back.ok /\ codec.back.tlv.num = codec.bytes[3] * 256 + codec.bytes[4])

\* the layout of the specification for a ManagementAddress TLV
ExpectedManagementAddress(t) ==
    LET alen == IF t.vk = "V4" THEN 4 ELSE 16
        n == t.num
    IN  <<16, 8 + alen + Len(t.oid), 1 + alen, IF t.vk = "V4" THEN 1 ELSE 2>>
        \o t.value
        \o <<t.subtype, (n \div 16777216) % 256, (n \div 65536) % 256,
             (n \div 256) % 256, n % 256, Len(t.oid)>>
        \o t.oid

\* C20: for every ManagementAddressTLV, bytes() is the header (type 8,
\* length), the address string length (5 or 17), the family byte (1 or 2),
\* the 4 or 16 address bytes, the interface numbering subtype, the interface
\* number as 4 big-endian bytes, the OID length and the OID; and
\* new_from_bytes reads a record of this layout back, taking exactly
\* OID-length bytes as the OID.
C20_ManagementAddressLayout ==
    /\ (codec.src = "made" /\ codec.made.tlv.tlv_type = ManagementAddress
          /\ codec.phase \in {"encoded", "decoded", "reencoded"}) =>
          codec.bytes = ExpectedManagementAddress(codec.made.tlv)
    /\ (codec.src = "given" /\ codec.phase \in {"decoded", "reencoded"}
          /\ codec.bytes \in {RecManagementAddress, RecManagementAddressOid}) =>
          /\ codec.back.ok
          /\ codec.back.tlv.subtype = 2
          /\ codec.back.tlv.num = 4
          /\ codec.back.tlv.value = Ipv4Sample
          /\ Len(codec.back.tlv.oid) = codec.bytes[14]

\* the value bytes of a ChassisId or PortId record say MacAddress
IsMacRecord(bytes) ==
    /\ Len(bytes) >= 3
    /\ \/ bytes[1] \div 2 = ChassisId /\ bytes[3] = 4
       \/ bytes[1] \div 2 = PortId /\ bytes[3] = 3

\* the value bytes of a ChassisId or PortId record say NetworkAddress
IsNetworkAddressRecord(bytes) ==
    /\ Len(bytes) >= 3
    /\ \/ bytes[1] \div 2 = ChassisId /\ bytes[3] = 5
       \/ bytes[1] \div 2 = PortId /\ bytes[3] = 4

\* C21: decoding a ChassisId or PortId of the NetworkAddress subtype
\* succeeds only when the family prefix is 1 and exactly 4 address bytes
\* follow, or the prefix is 2 and exactly 16 follow; decoding one of the
\* MacAddress subtype succeeds only when exactly 6 value bytes follow.
C21_AddressSizes ==
    (codec.src = "given" /\ codec.phase \in {"decoded", "reencoded"} /\ codec.back.ok) =>
        /\ IsNetworkAddressRecord(codec.bytes) =>
              /\ Len(codec.bytes) >= 4
              /\ \/ codec.bytes[4] = 1 /\ Len(codec.bytes) = 4 + 4
                 \/ codec.bytes[4] = 2 /\ Len(codec.bytes) = 4 + 16
        /\ IsMacRecord(codec.bytes) => Len(codec.bytes) = 3 + 6

\* an IPv4 prefix followed by five bytes has been refused, in a PortId
\* record, whose decoder checks nothing else
C21_Witness ==
    /\ codec.src = "given" /\ codec.phase = "decoded"
    /\ codec.bytes = <<4, 7, 4, 1>> \o Ipv4Sample \o <<9>>
    /\ ~codec.back.ok

\* an IPv6 PortId record has been accepted
C21_WitnessAccepted ==
    /\ codec.src = "given" /\ codec.phase = "decoded"
    /\ codec.bytes = <<4, 18, 4, 2>> \o Ipv6Sample
    /\ codec.back.ok /\ codec.back.tlv.value = Ipv6Sample

(***************************************************************************)
(* Claims about the read-only calls on an Lldpdu (SpecQuery)               *)
(***************************************************************************)
RECURSIVE EncodedSizeUpTo(_, _)
\* the sum of the encoded sizes of the first k TLVs of self
EncodedSizeUpTo(self, k) ==
    IF k = 0 THEN 0
    ELSE EncodedSizeUpTo(self, k - 1) + Len(Tlv_bytes(self.tlvs[k]))

\* bytes holds the records of the TLVs of self one after the other, in
\* order, and nothing else
IsConcatenation(bytes, self) ==
    /\ Len(bytes) = EncodedSizeUpTo(self, Len(self.tlvs))
    /\ \A i \in 1..Len(self.tlvs) :
          SubSeq(bytes, EncodedSizeUpTo(self, i - 1) + 1, EncodedSizeUpTo(self, i))
              = Tlv_bytes(self.tlvs[i])

\* C22: bytes() returns the concatenation of tlv.bytes() of the elements in
\* append order, with no outer header and nothing added or dropped; bytes(),
\* len(), complete() and getitem() leave the TLV sequence, the size counter
\* and the terminator flag unchanged.
C22_BytesIsConcatenation ==
    [][/\ (seen' # seen /\ seen'.op = "bytes") => IsConcatenation(seen'.bytes, lldpdu)
       /\ (seen' # seen /\ seen'.op \in {"bytes", "len", "complete", "getitem"}) =>
             lldpdu' = lldpdu]_vars

\* bytes() has been called on a complete Lldpdu of four TLVs and returned
\* the 20 bytes of its four records
C22_Witness ==
    /\ seen.op = "bytes"
    /\ Lldpdu_complete(lldpdu) /\ Lldpdu_len(lldpdu) = 4
    /\ seen.bytes = Tlv_bytes(TlvChassis) \o Tlv_bytes(TlvPort) \o Tlv_bytes(TlvTtl) \o <<0, 0>>

(***************************************************************************)
(* More claims about one Lldpdu (SpecLldpdu)                               *)
(***************************************************************************)
OptionalTypes ==
    {PortDescription, SystemName, SystemDescription, SystemCapabilities,
     ManagementAddress, OrganizationallySpecific}

\* C23: once the three mandatory TLVs are in place and no terminator has been
\* appended, an append of a TLV of any optional kind that respects the size
\* limit succeeds, whatever is already present; each successful append
\* increases len() by exactly 1.
C23_OptionalAppend ==
    last.called =>
        /\ (/\ Lldpdu_len(last.pre) >= 3
            /\ ~Lldpdu_complete(last.pre)
            /\ last.tlv.tlv_type \in OptionalTypes
            /\ last.pre.size + Len(Tlv_bytes(last.tlv)) <= MaxLldpduSize) => last.ok
        /\ last.ok => Lldpdu_len(lldpdu) = Lldpdu_len(last.pre) + 1

\* a second PortDescription has been appended, after a SystemName
C23_Witness ==
    /\ last.called /\ last.ok
    /\ Lldpdu_len(lldpdu) = 6
    /\ TypeAt(lldpdu, 4) = PortDescription
    /\ TypeAt(lldpdu, 5) = SystemName
    /\ TypeAt(lldpdu, 6) = PortDescription

(***************************************************************************)
(* More claims about one TLV (SpecTlv)                                     *)
(***************************************************************************)
\* C24: for every TLV t whose len() is between 0 and 511, the record length
\* that Lldpdu::from_bytes computes from the first two bytes of t.bytes()
\* equals t.len(), so the record is sliced and skipped by 2 + t.len() bytes.
C24_HeaderLengthConsistent ==
    (codec.src = "made" /\ codec.phase \in {"encoded", "decoded", "reencoded"}
       /\ LenOf(codec.made.tlv) <= 511) =>
        LengthShift9(codec.bytes[1], codec.bytes[2]) = LenOf(codec.made.tlv)

\* C24 restricted to TLVs whose len() is below 256, where bit 0 of byte 0 is
\* not needed
C24_HeaderLengthConsistentShort ==
    (codec.src = "made" /\ codec.phase \in {"encoded", "decoded", "reencoded"}
       /\ LenOf(codec.made.tlv) <= 255) =>
        LengthShift9(codec.bytes[1], codec.bytes[2]) = LenOf(codec.made.tlv)

\* C25: after an append that fails (ordering, duplicate mandatory,
\* terminator already present, size exceeded), the TLV sequence, the size
\* counter and the terminator flag are what they were before the call, so
\* the next append is judged as if the failed one had never been made.
C25_RejectedAppendChangesNothing ==
    (last.called /\ ~last.ok) =>
        /\ lldpdu = last.pre
        /\ \A tlv \in SampleTlvs :
              Lldpdu_append(lldpdu, tlv) = Lldpdu_append(last.pre, tlv)

\* a terminator has been refused as the second TLV, and a PortId would be
\* accepted next
C25_Witness ==
    /\ last.called /\ ~last.ok /\ last.err \in {"second", "end_early"}
    /\ last.tlv.tlv_type = EndOfLLDPDU
    /\ Lldpdu_len(lldpdu) = 1
    /\ Lldpdu_append(lldpdu, TlvPort).ok

\* each of the other ways to fail has happened
C25_WitnessSize == last.called /\ ~last.ok /\ last.err = "size"
C25_WitnessDuplicate == last.called /\ ~last.ok /\ last.err = "duplicate"
C25_WitnessAfterEnd == last.called /\ ~last.ok /\ last.err = "after_end"

(***************************************************************************)
(* More claims about the read-only calls on an Lldpdu (SpecQuery)          *)
(***************************************************************************)
\* "LLDPDU(" and ")"
TextOpen == <<76, 76, 68, 80, 68, 85, 40>>
TextClose == <<41>>

\* C26: formatting a reachable Lldpdu never fails and yields "LLDPDU("
\* followed by the renders of its TLVs in order joined by ", " and then ")",
\* every one of the ten kinds having a render.
C26_RenderingNeverFails ==
    seen.op = "fmt" =>
        /\ seen.text.ok
        /\ \A i \in 1..Lldpdu_len(lldpdu) : Tlv_fmt(lldpdu.tlvs[i]).ok
        /\ seen.text.text =
              TextOpen
              \o Join([i \in 1..Lldpdu_len(lldpdu) |-> Tlv_fmt(lldpdu.tlvs[i]).text],
                      <<44, 32>>)
              \o TextClose

\* C26 for an Lldpdu that holds no TLV or a ChassisId only: "LLDPDU()" and
\* "LLDPDU(ChassisIdTLV(4, "66:6F:6F:62:61:72"))"
C26_RenderingWithoutPortId ==
    (seen.op = "fmt" /\ Lldpdu_len(lldpdu) <= 1) =>
        /\ seen.text.ok
        /\ seen.text.text =
              IF Lldpdu_len(lldpdu) = 0 THEN TextOpen \o TextClose
              ELSE TextOpen \o ChassisIdTLV_fmt(lldpdu.tlvs[1]).text \o TextClose

\* C27: the size counter of a reachable Lldpdu equals the sum of the encoded
\* lengths of its TLVs, which is len(bytes()); it starts at 0, grows by
\* len(tlv.bytes()) on each accepted append and never decreases.
C27_SizeIsEncodedLength ==
    /\ lldpdu.size = EncodedSizeUpTo(lldpdu, Lldpdu_len(lldpdu))
    /\ lldpdu.size = Len(Lldpdu_bytes(lldpdu))
    /\ seen.op = "bytes" => Len(seen.bytes) = lldpdu.size
    /\ Lldpdu_len(lldpdu) = 0 => lldpdu.size = 0
    /\ (last.called /\ last.ok) => lldpdu.size = last.pre.size + Len(Tlv_bytes(last.tlv))
    /\ last.called => lldpdu.size >= last.pre.size

\* bytes() has returned 34 bytes for an Lldpdu of five TLVs whose counter is
\* at 34: the three mandatory TLVs (18), a ManagementAddress (14) and the
\* terminator (2)
C27_Witness ==
    /\ seen.op = "bytes"
    /\ Lldpdu_len(lldpdu) = 5 /\ Lldpdu_complete(lldpdu)
    /\ TypeAt(lldpdu, 4) = ManagementAddress
    /\ lldpdu.size = 34
    /\ Len(seen.bytes) = 34

C28_WitnessRefused ==
    /\ last.called /\ ~last.ok /\ Tlv_get_type(last.tlv) = EndOfLLDPDU
    /\ Lldpdu_len(lldpdu) = 2

(***************************************************************************)
(* More claims about the agent (SpecAgent)                                 *)
(***************************************************************************)
\* payloads that are a proper beginning of an LLDPDU: nothing, a ChassisId,
\* the three mandatory TLVs
IncompletePayloads ==
    {<<>>, PayloadChassisOnly(MacOther), PayloadNoEnd(MacOther)}

\* run() has just received a frame that passes the filter and carries payload
ReceivedIncomplete(payloads) ==
    /\ Len(rx') = Len(rx) + 1
    /\ Len(rx'[Len(rx')]) >= EthernetHeaderLen
    /\ PassesFilter(rx'[Len(rx')])
    /\ Frame_payload(rx'[Len(rx')]) \in payloads

\* that frame has been logged, and has ended run() if run_once is set
LoggedIncomplete ==
    /\ Len(log') = Len(log) + 1
    /\ run_once => pc' = "returned"

\* C29: Lldpdu::from_bytes succeeds on an empty buffer and on a buffer that is
\* a valid beginning of an LLDPDU, without the mandatory TLVs or a
\* terminator, so run() logs, and with run_once stops on, a frame that
\* passes the filter and whose payload is an incomplete LLDPDU.
C29_IncompleteIsLogged ==
    [][/\ \A p \in IncompletePayloads :
             /\ Lldpdu_from_bytes(p, overflow_checks).ok
             /\ ~Lldpdu_complete(Lldpdu_from_bytes(p, overflow_checks).lldpdu)
       /\ ReceivedIncomplete(IncompletePayloads) => LoggedIncomplete]_vars

\* C29 for the payloads that hold no PortId: nothing, and a ChassisId
C29_IncompleteWithoutPortIdIsLogged ==
    [][/\ \A p \in IncompletePayloads :
             /\ Lldpdu_from_bytes(p, overflow_checks).ok
             /\ ~Lldpdu_complete(Lldpdu_from_bytes(p, overflow_checks).lldpdu)
       /\ ReceivedIncomplete({<<>>, PayloadChassisOnly(MacOther)}) => LoggedIncomplete]_vars

\* run() has called announce() in this step
Announced == Len(sent') = Len(sent) + 1

\* C30: within run(), announce() is called at most once per loop iteration,
\* never before a receive has returned, and only when the time elapsed since
\* the previous announce (since run() started, for the first) is strictly
\* greater than the interval; the reference timestamp then becomes the
\* instant sampled for the check, so two consecutive announces are more than
\* one interval apart.
C30_AnnounceTiming ==
    [][/\ Len(sent') <= Len(sent) + 1
       /\ Announced =>
             /\ Len(rx') = Len(rx) + 1
             /\ now' - t_previous > interval
             /\ sent'[Len(sent')].at = now'
             /\ pc' = "running" => t_previous' = now'
             /\ Len(sent) >= 1 => sent'[Len(sent')].at - sent[Len(sent)].at > interval
       /\ (pc = "running" /\ ~Announced) => t_previous' = t_previous]_vars

\* run() has announced twice, the second time more than one interval after
\* the first
C30_Witness ==
    /\ pc = "running"
    /\ Len(sent) = 2
    /\ sent[2].at - sent[1].at > interval
    /\ t_previous = sent[2].at

\* an iteration has ended without an announce exactly one interval after
\* run() started
C30_WitnessNotDue ==
    /\ pc = "running"
    /\ Len(log) = 1 /\ Len(rx) = 1
    /\ now - t_previous = interval
    /\ sent = <<>>

====
